---- MODULE Spec2Model ----
(***************************************************************************)
(* State-machine model of src/src/server.js (AI Dealer Poker server).      *)
(*                                                                         *)
(* Every socket.io handler is an async function.  It runs synchronously    *)
(* up to its next `await`, and other handlers may run while it is          *)
(* suspended.  One action of the model is one such synchronous segment:    *)
(* it starts where the handler is resumed and ends with the storage call   *)
(* the handler awaits next.  The effect of a storage call is placed at the *)
(* call: the in-memory branch of saveRoom/getRoom/saveTransaction runs     *)
(* synchronously inside the call, and the Redis client sends its commands  *)
(* over one connection in call order.                                      *)
(*                                                                         *)
(* Room documents held by the process are objects with identity (heap):    *)
(* rooms.get returns the stored object itself, JSON.parse returns a fresh  *)
(* object.  The Redis client is modelled by the key-value contract the     *)
(* calls are written against: hset stores the serialized document under    *)
(* the key, hgetall gives it back, rpush/lrange keep a list.               *)
(***************************************************************************)
EXTENDS Integers, Sequences, FiniteSets, Bags, TLC

\* ---------------------------------------------------------------- bounds
MaxRooms == 1
MaxPlayers == 2
MaxSockets == 2
MaxCmds == 3
MaxInFlight == 2
MaxRedisEvents == 2

RoomIds == 1..MaxRooms
PlayerIds == 1..MaxPlayers
Sockets == 1..MaxSockets
ObjIds == 1..(MaxRooms + MaxInFlight)
Keys == RoomIds \X PlayerIds

\* inputs a client may send
\* buyin: amount
Amounts == {-1, 1, 2}
\* recordResult: type and amount
ResultInputs == {<<"win", 1>>, <<"loss", -1>>, <<"buyin", 2>>}
\* joinRoom: the socket and the nickname it gives ("" is none)
JoinInputs == {<<s, IF s = 1 THEN "" ELSE "ann">> : s \in Sockets}

\* ------------------------------------------------------------ data model
\* rooms.get(roomId) === undefined / getRoom() === null: no object
NoObj == 0

\* no room document (a free heap cell, a missing Redis key, an empty payload)
NullDoc == [status |-> "absent", players |-> <<>>, finalChips |-> <<>>, endedAt |-> 0]

\* the room literal of POST /api/rooms; finalChips and endedAt are not set yet
NewRoom == [status |-> "waiting", players |-> <<>>, finalChips |-> <<>>, endedAt |-> 0]

\* generateNickname(): some generated placeholder name
generateNickname == "gen"

\* the player literal of joinRoom; finalChips: null is the empty sequence,
\* a number v is <<v>>
NewPlayer(id, sock, nick) ==
  [id |-> id, socketId |-> sock,
   nickname |-> IF nick = "" THEN generateNickname ELSE nick,
   buyin |-> 0, finalChips |-> <<>>, profit |-> 0]

NoPlayer == [id |-> 0, socketId |-> 0, nickname |-> "", buyin |-> 0,
             finalChips |-> <<>>, profit |-> 0]

\* JSON.stringify(data) of a room document: the text form, here the tuple of
\* its fields; every nested value (number, string, null, array) survives as is
JSONstringify(doc) == <<doc.status, doc.players, doc.finalChips, doc.endedAt>>

\* JSON.parse(data): a new document with the fields of the text form
JSONparse(str) ==
  [status |-> str[1], players |-> str[2], finalChips |-> str[3], endedAt |-> str[4]]

\* a Redis key that does not exist
NoKey == <<>>

\* room.players.find(p => p.id === playerId): index of the first match, 0 if none
FindPlayer(players, pid) ==
  IF \E k \in 1..Len(players) : players[k].id = pid
  THEN CHOOSE k \in 1..Len(players) :
         /\ players[k].id = pid
         /\ \A j \in 1..(k - 1) : players[j].id # pid
  ELSE 0

\* the finalChips argument of finalizeRoom, a list of {playerId, amount}:
\* nobody named, one player named, two players named
FinalChipsInputs ==
  {<<>>} \cup
  {<<[playerId |-> p, amount |-> IF p = 1 THEN 3 ELSE 0]>> : p \in PlayerIds} \cup
  {<<[playerId |-> 1, amount |-> 0], [playerId |-> p, amount |-> 3]>> :
      p \in PlayerIds \ {1}}

VARIABLES
  useRedis,      \* let useRedis
  heap,          \* room objects of the process, by object identity
  rooms,         \* const rooms = new Map(): roomId -> object
  transactions,  \* const transactions = new Map(): (roomId, playerId) -> list
  redisRooms,    \* Redis keys room:<id>
  redisTx,       \* Redis lists tx:<roomId>:<playerId>
  handlers,      \* handler invocations in flight with their locals (a bag)
  subs,          \* socket.io room membership of each socket
  sockPlayer,    \* socket.playerId
  sockRoom,      \* socket.roomId
  nextRoom,      \* room ids handed out by generateRoomId
  nextPid,       \* player ids handed out by uuidv4
  bcast,         \* the latest io.to(roomId).emit
  errors,        \* the socket.emit('error') messages each socket was sent
  issued,        \* amounts of the buyin commands that ran to their broadcast
  nCmds,         \* socket commands received; also the reading of new Date()
  nRedisEvents   \* changes of useRedis by Redis 'connect'/'error' events

vars == <<useRedis, heap, rooms, transactions, redisRooms, redisTx, handlers,
          subs, sockPlayer, sockRoom, nextRoom, nextPid, bcast, errors, issued,
          nCmds, nRedisEvents>>

store == <<heap, rooms, transactions, redisRooms, redisTx>>
sockets == <<subs, sockPlayer, sockRoom>>
output == <<bcast, errors>>
counters == <<nextRoom, nextPid, nCmds, nRedisEvents>>

\* the locals of a handler invocation: its arguments (sock, room, pid, amount,
\* type, fc, nick), where it is suspended (pc), its `room` object (obj) and the
\* index of its `player` in room.players (idx); st0 is the status getRoom saw
\* and wrote the document handed to saveRoom; ord orders the saveRoom calls of
\* the handlers in flight on one room (a later call has a greater ord, 0 is no
\* saveRoom call so far)
NoHandler ==
  [kind |-> "none", pc |-> "none", sock |-> 0, room |-> 0, pid |-> 0,
   amount |-> 0, type |-> "", fc |-> <<>>, nick |-> "", obj |-> NoObj,
   idx |-> 0, st0 |-> "absent", wrote |-> NullDoc, ord |-> 0]

NoBcast ==
  [name |-> "none", room |-> 0, to |-> {}, playerId |-> 0, player |-> NoPlayer,
   players |-> <<>>, type |-> "", amount |-> 0, doc |-> NullDoc, summary |-> <<>>]

InFlight == BagToSet(handlers)

Idle == InFlight = {}

\* the handlers in flight once h is suspended as h2
Suspend(h, h2) == (handlers (-) SetToBag({h})) (+) SetToBag({h2})

\* the handlers in flight once h has returned
Finish(h) == handlers (-) SetToBag({h})

\* the place of the latest saveRoom call on room r among those of the handlers
\* in flight (0 if none of them has called saveRoom)
LastWrite(r) ==
  LET called == {x.ord : x \in {y \in InFlight : y.room = r}} \cup {0}
  IN CHOOSE n \in called : \A m \in called : m <= n

\* a heap cell no live reference names
FreeObj == CHOOSE o \in ObjIds :
             /\ heap[o] = NullDoc
             /\ \A q \in ObjIds : heap[q] = NullDoc => o <= q

\* objects that neither the rooms Map nor a suspended handler refers to are
\* unreachable; their cells are cleared
Collect(hp, rm, hs) ==
  [o \in ObjIds |->
     IF (\E r \in RoomIds : rm[r] = o) \/ (\E h \in BagToSet(hs) : h.obj = o)
     THEN hp[o] ELSE NullDoc]

\* --------------------------------------------------------- storage layer
\* getRoom(roomId): the object the caller gets
getRoom(roomId) ==
  IF useRedis
  THEN IF redisRooms[roomId] = NoKey THEN NoObj ELSE FreeObj
  ELSE rooms[roomId]

\* getRoom(roomId): the heap after the call (JSON.parse builds a new object)
getRoomHeap(roomId) ==
  IF useRedis /\ redisRooms[roomId] # NoKey
  THEN [heap EXCEPT ![FreeObj] = JSONparse(redisRooms[roomId])]
  ELSE heap

\* saveRoom(roomId, data), Redis branch: data is the object o of heap hp
saveRoomRedis(roomId, o, hp) ==
  IF useRedis
  THEN [redisRooms EXCEPT ![roomId] = JSONstringify(hp[o])]
  ELSE redisRooms

\* saveRoom(roomId, data), in-memory branch: the Map keeps the object itself
saveRoomMap(roomId, o) ==
  IF useRedis THEN rooms ELSE [rooms EXCEPT ![roomId] = o]

\* txData of saveTransaction (id, note and timestamp carry no behaviour)
TxData(type, amount) == [type |-> type, amount |-> amount]

\* the list replaced by its newest entry instead of appended to
PushTxOverwrite(log, tx) == <<tx>>

\* the entry put at the head of the list (lpush / unshift)
PushTxFront(log, tx) == <<tx>> \o log

\* redis.rpush / transactions.get(roomId)[playerId].push
PushTx(log, tx) == Append(log, tx)

saveTransactionRedis(roomId, playerId, tx) ==
  IF useRedis
  THEN [redisTx EXCEPT ![<<roomId, playerId>>] = PushTx(@, tx)]
  ELSE redisTx

saveTransactionMap(roomId, playerId, tx) ==
  IF useRedis
  THEN transactions
  ELSE [transactions EXCEPT ![<<roomId, playerId>>] = PushTx(@, tx)]

\* getTransactions(roomId, playerId)
getTransactions(roomId, playerId) ==
  IF useRedis THEN redisTx[<<roomId, playerId>>]
  ELSE transactions[<<roomId, playerId>>]

\* what getRoom would return now, as a value (NullDoc if no room)
Stored(roomId) ==
  IF useRedis
  THEN IF redisRooms[roomId] = NoKey THEN NullDoc ELSE JSONparse(redisRooms[roomId])
  ELSE IF rooms[roomId] = NoObj THEN NullDoc ELSE heap[rooms[roomId]]

\* io.to(roomId): the sockets that joined the socket.io room
Subscribers(roomId) == {s \in Sockets : roomId \in subs[s]}

Init ==
  /\ useRedis = FALSE
  /\ heap = [o \in ObjIds |-> NullDoc]
  /\ rooms = [r \in RoomIds |-> NoObj]
  /\ transactions = [k \in Keys |-> <<>>]
  /\ redisRooms = [r \in RoomIds |-> NoKey]
  /\ redisTx = [k \in Keys |-> <<>>]
  /\ handlers = EmptyBag
  /\ subs = [s \in Sockets |-> {}]
  /\ sockPlayer = [s \in Sockets |-> 0]
  /\ sockRoom = [s \in Sockets |-> 0]
  /\ nextRoom = 0
  /\ nextPid = 0
  /\ bcast = NoBcast
  /\ errors = [s \in Sockets |-> <<>>]
  /\ issued = [k \in Keys |-> <<>>]
  /\ nCmds = 0
  /\ nRedisEvents = 0

\* ------------------------------------------------------ process events
\* redis.on('connect'): useRedis = true.  An event that leaves useRedis as it
\* is changes nothing and is not a step.
RedisConnect ==
  /\ ~useRedis
  /\ nRedisEvents < MaxRedisEvents
  /\ useRedis' = TRUE
  /\ nRedisEvents' = nRedisEvents + 1
  /\ UNCHANGED <<store, handlers, sockets, output, issued, nextRoom, nextPid, nCmds>>

\* redis.on('error'): useRedis = false
RedisError ==
  /\ useRedis
  /\ nRedisEvents < MaxRedisEvents
  /\ useRedis' = FALSE
  /\ nRedisEvents' = nRedisEvents + 1
  /\ UNCHANGED <<store, handlers, sockets, output, issued, nextRoom, nextPid, nCmds>>

\* app.post('/api/rooms'): generateRoomId() gives an id not in use; saveRoom is
\* called and not awaited, the response follows at once
CreateRoom ==
  /\ nextRoom < MaxRooms
  /\ LET roomId == nextRoom + 1
         o == FreeObj
         hp == [heap EXCEPT ![o] = NewRoom]
     IN /\ redisRooms' = saveRoomRedis(roomId, o, hp)
        /\ rooms' = saveRoomMap(roomId, o)
        /\ heap' = Collect(hp, rooms', handlers)
        /\ nextRoom' = roomId
  /\ UNCHANGED <<useRedis, transactions, redisTx, handlers, sockets, output,
                 issued, nextPid, nCmds, nRedisEvents>>

\* a socket command is received: the handler runs up to `await getRoom(roomId)`
Receive(h) ==
  /\ nCmds < MaxCmds
  /\ BagCardinality(handlers) < MaxInFlight
  /\ LET o == getRoom(h.room)
         hp == getRoomHeap(h.room)
         st == IF o = NoObj THEN "absent" ELSE hp[o].status
     IN /\ handlers' = handlers (+) SetToBag({[h EXCEPT !.pc = "got", !.obj = o,
                                                        !.st0 = st]})
        /\ heap' = Collect(hp, rooms, handlers')
  /\ nCmds' = nCmds + 1
  /\ UNCHANGED <<useRedis, rooms, transactions, redisRooms, redisTx, sockets,
                 output, issued, nextRoom, nextPid, nRedisEvents>>

\* the handler h returns; hp is the heap it leaves
Return(h, hp) ==
  /\ handlers' = Finish(h)
  /\ heap' = Collect(hp, rooms', handlers')

\* socket.emit('error', {message}) followed by return
Reject(h, message) ==
  /\ errors' = [errors EXCEPT ![h.sock] = Append(@, message)]
  /\ UNCHANGED <<rooms, transactions, redisRooms, redisTx>>
  /\ Return(h, heap)

\* ------------------------------------------------------------- joinRoom
\* joinRoom handlers that have not drawn their player id yet
JoinsWaiting ==
  BagCardinality([h \in {x \in InFlight : x.kind = "join" /\ x.pc = "got"} |->
                    CopiesIn(h, handlers)])

\* socket.on('joinRoom', ...) up to `await getRoom(roomId)`
JoinRoomCall(s, r, nick) ==
  /\ nextPid + JoinsWaiting < MaxPlayers
  /\ Receive([NoHandler EXCEPT !.kind = "join", !.sock = s, !.room = r, !.nick = nick])

\* the status test left out: only a missing room is turned away
JoinNeverClosed(room) == FALSE

\* room.status !== 'waiting' && room.status !== 'playing'
JoinClosed(room) == room.status # "waiting" /\ room.status # "playing"

\* from the result of getRoom to `await saveRoom(roomId, room)`
JoinRoomLoaded(h) ==
  /\ h.kind = "join" /\ h.pc = "got"
  /\ IF h.obj = NoObj
     THEN /\ Reject(h, "room-missing")
          /\ UNCHANGED <<bcast, nextPid>>
     ELSE IF JoinClosed(heap[h.obj])
     THEN /\ Reject(h, "room-ended")
          /\ UNCHANGED <<bcast, nextPid>>
     ELSE LET player == NewPlayer(nextPid + 1, h.sock, h.nick)
              hp == [heap EXCEPT ![h.obj].players = Append(@, player)]
          IN /\ nextPid' = nextPid + 1
             /\ redisRooms' = saveRoomRedis(h.room, h.obj, hp)
             /\ rooms' = saveRoomMap(h.room, h.obj)
             /\ handlers' = Suspend(h, [h EXCEPT !.pc = "saved", !.pid = player.id,
                                                 !.idx = Len(hp[h.obj].players),
                                                 !.ord = LastWrite(h.room) + 1])
             /\ heap' = Collect(hp, rooms', handlers')
             /\ UNCHANGED <<transactions, redisTx, output>>
  /\ UNCHANGED <<useRedis, sockets, issued, nextRoom, nCmds, nRedisEvents>>

\* after saveRoom: socket.join, socket.playerId/roomId, the playerJoined broadcast
JoinRoomSaved(h) ==
  /\ h.kind = "join" /\ h.pc = "saved"
  /\ subs' = [subs EXCEPT ![h.sock] = @ \cup {h.room}]
  /\ sockPlayer' = [sockPlayer EXCEPT ![h.sock] = h.pid]
  /\ sockRoom' = [sockRoom EXCEPT ![h.sock] = h.room]
  /\ bcast' = [NoBcast EXCEPT !.name = "playerJoined", !.room = h.room,
                              !.to = {s \in Sockets : h.room \in subs'[s]},
                              !.playerId = h.pid,
                              !.player = heap[h.obj].players[h.idx],
                              !.players = heap[h.obj].players]
  /\ UNCHANGED rooms
  /\ Return(h, heap)
  /\ UNCHANGED <<useRedis, transactions, redisRooms, redisTx, errors, issued, counters>>

\* ---------------------------------------------------------------- buyin
\* socket.on('buyin', ...) up to `await getRoom(roomId)`; the handler never
\* refers to its socket
BuyinCall(r, p, a) ==
  Receive([NoHandler EXCEPT !.kind = "buyin", !.room = r, !.pid = p, !.amount = a])

\* the increment written as an assignment: player.buyin = amount
BuyinOverwrite(player, amount) == [player EXCEPT !.buyin = amount]

\* the amount taken only while no buy-in is recorded yet:
\* player.buyin = player.buyin || amount
BuyinFirstOnly(player, amount) ==
  [player EXCEPT !.buyin = IF @ = 0 THEN amount ELSE @]

\* player.buyin = (player.buyin || 0) + amount
BuyinUpdate(player, amount) == [player EXCEPT !.buyin = @ + amount]

\* from the result of getRoom to `await saveRoom(roomId, room)`
BuyinLoaded(h) ==
  LET k == IF h.obj = NoObj THEN 0 ELSE FindPlayer(heap[h.obj].players, h.pid) IN
  /\ h.kind = "buyin" /\ h.pc = "got"
  /\ IF h.obj = NoObj \/ k = 0
     THEN /\ UNCHANGED <<rooms, redisRooms>>
          /\ Return(h, heap)
     ELSE LET hp == [heap EXCEPT ![h.obj].players[k] = BuyinUpdate(@, h.amount)]
          IN /\ redisRooms' = saveRoomRedis(h.room, h.obj, hp)
             /\ rooms' = saveRoomMap(h.room, h.obj)
             /\ handlers' = Suspend(h, [h EXCEPT !.pc = "saved", !.idx = k,
                                                 !.ord = LastWrite(h.room) + 1])
             /\ heap' = Collect(hp, rooms', handlers')
  /\ UNCHANGED <<useRedis, transactions, redisTx, sockets, output, issued, counters>>

\* after saveRoom, up to `await saveTransaction(roomId, playerId, {...})`
BuyinSaved(h) ==
  /\ h.kind = "buyin" /\ h.pc = "saved"
  /\ redisTx' = saveTransactionRedis(h.room, h.pid, TxData("buyin", h.amount))
  /\ transactions' = saveTransactionMap(h.room, h.pid, TxData("buyin", h.amount))
  /\ handlers' = Suspend(h, [h EXCEPT !.pc = "logged"])
  /\ UNCHANGED <<useRedis, heap, rooms, redisRooms, sockets, output, issued, counters>>

\* after saveTransaction: the buyin broadcast
BuyinLogged(h) ==
  /\ h.kind = "buyin" /\ h.pc = "logged"
  /\ bcast' = [NoBcast EXCEPT !.name = "buyin", !.room = h.room,
                              !.to = Subscribers(h.room), !.playerId = h.pid,
                              !.player = heap[h.obj].players[h.idx],
                              !.amount = h.amount]
  /\ issued' = [issued EXCEPT ![<<h.room, h.pid>>] = Append(@, h.amount)]
  /\ UNCHANGED rooms
  /\ Return(h, heap)
  /\ UNCHANGED <<useRedis, transactions, redisRooms, redisTx, sockets, errors, counters>>
\* --------------------------------------------------------- recordResult
\* socket.on('recordResult', ...) up to `await getRoom(roomId)`
RecordResultCall(r, p, t, a) ==
  Receive([NoHandler EXCEPT !.kind = "record", !.room = r, !.pid = p, !.type = t,
                            !.amount = a])

\* the result added to a running total kept on the player record
RecordResultCounted(player, type, amount) == [player EXCEPT !.profit = @ + amount]

\* recordResult only reads the player it found: no field is assigned
RecordResultPlayer(player, type, amount) == player

\* from the result of getRoom to `await saveTransaction(roomId, playerId, {...})`
RecordResultLoaded(h) ==
  LET k == IF h.obj = NoObj THEN 0 ELSE FindPlayer(heap[h.obj].players, h.pid) IN
  /\ h.kind = "record" /\ h.pc = "got"
  /\ IF h.obj = NoObj \/ k = 0
     THEN /\ UNCHANGED <<rooms, redisTx, transactions>>
          /\ Return(h, heap)
     ELSE LET hp == [heap EXCEPT ![h.obj].players[k] =
                                   RecordResultPlayer(@, h.type, h.amount)]
          IN /\ redisTx' = saveTransactionRedis(h.room, h.pid, TxData(h.type, h.amount))
             /\ transactions' = saveTransactionMap(h.room, h.pid, TxData(h.type, h.amount))
             /\ handlers' = Suspend(h, [h EXCEPT !.pc = "logged", !.idx = k])
             /\ heap' = Collect(hp, rooms, handlers')
             /\ UNCHANGED rooms
  /\ UNCHANGED <<useRedis, redisRooms, sockets, output, issued, counters>>

\* after saveTransaction: the recordResult broadcast
RecordResultLogged(h) ==
  /\ h.kind = "record" /\ h.pc = "logged"
  /\ bcast' = [NoBcast EXCEPT !.name = "recordResult", !.room = h.room,
                              !.to = Subscribers(h.room), !.playerId = h.pid,
                              !.player = heap[h.obj].players[h.idx],
                              !.type = h.type, !.amount = h.amount]
  /\ UNCHANGED rooms
  /\ Return(h, heap)
  /\ UNCHANGED <<useRedis, transactions, redisRooms, redisTx, sockets, errors, issued,
                 counters>>

\* --------------------------------------------------------- finalizeRoom
\* socket.on('finalizeRoom', ...) up to `await getRoom(roomId)`
FinalizeRoomCall(r, fc) ==
  Receive([NoHandler EXCEPT !.kind = "finalize", !.room = r, !.fc = fc])

\* the profit taken to be the chip count, the buy-in not subtracted
SetFinalChipsNoBuyin(player, amount) ==
  [player EXCEPT !.finalChips = <<amount>>, !.profit = amount]

\* player.finalChips = fc.amount; player.profit = fc.amount - player.buyin
SetFinalChips(player, amount) ==
  [player EXCEPT !.finalChips = <<amount>>, !.profit = amount - player.buyin]

\* for (const fc of finalChips) { find the player; if found, set its final chips }
RECURSIVE ApplyFinalChips(_, _)
ApplyFinalChips(players, fcs) ==
  IF fcs = <<>> THEN players
  ELSE LET fc == Head(fcs)
           k == FindPlayer(players, fc.playerId)
       IN ApplyFinalChips(
            IF k = 0 THEN players
            ELSE [players EXCEPT ![k] = SetFinalChips(@, fc.amount)],
            Tail(fcs))

\* the body of finalizeRoom between `if (!room) return` and saveRoom: the loop,
\* room.status = 'ended', room.finalChips = finalChips, room.endedAt = new Date()
EndRoom(room, fcs, stamp) ==
  [room EXCEPT !.players = ApplyFinalChips(room.players, fcs),
               !.status = "ended", !.finalChips = fcs, !.endedAt = stamp]

\* from the result of getRoom to `await saveRoom(roomId, room)`
FinalizeRoomLoaded(h) ==
  /\ h.kind = "finalize" /\ h.pc = "got"
  /\ IF h.obj = NoObj
     THEN /\ UNCHANGED <<rooms, redisRooms>>
          /\ Return(h, heap)
     ELSE LET hp == [heap EXCEPT ![h.obj] = EndRoom(@, h.fc, nCmds)]
          IN /\ redisRooms' = saveRoomRedis(h.room, h.obj, hp)
             /\ rooms' = saveRoomMap(h.room, h.obj)
             /\ handlers' = Suspend(h, [h EXCEPT !.pc = "saved", !.wrote = hp[h.obj],
                                                 !.ord = LastWrite(h.room) + 1])
             /\ heap' = Collect(hp, rooms', handlers')
  /\ UNCHANGED <<useRedis, transactions, redisTx, sockets, output, issued, counters>>

\* summary: room.players.map(p => ({nickname, buyin, finalChips, profit}))
Summary(players) ==
  [k \in 1..Len(players) |->
     [nickname |-> players[k].nickname, buyin |-> players[k].buyin,
      finalChips |-> players[k].finalChips, profit |-> players[k].profit]]

\* after saveRoom: the roomEnded broadcast
FinalizeRoomSaved(h) ==
  /\ h.kind = "finalize" /\ h.pc = "saved"
  /\ bcast' = [NoBcast EXCEPT !.name = "roomEnded", !.room = h.room,
                              !.to = Subscribers(h.room),
                              !.doc = heap[h.obj],
                              !.summary = Summary(heap[h.obj].players)]
  /\ UNCHANGED rooms
  /\ Return(h, heap)
  /\ UNCHANGED <<useRedis, transactions, redisRooms, redisTx, sockets, errors, issued,
                 counters>>

\* ------------------------------------------------------------ leaveRoom
\* socket.on('leaveRoom'): if (roomId && playerId) socket.leave(roomId)
LeaveRoom(s) ==
  /\ nCmds < MaxCmds
  /\ nCmds' = nCmds + 1
  /\ subs' = IF sockRoom[s] # 0 /\ sockPlayer[s] # 0
             THEN [subs EXCEPT ![s] = @ \ {sockRoom[s]}]
             ELSE subs
  /\ UNCHANGED <<useRedis, store, handlers, sockPlayer, sockRoom, output, issued,
                 nextRoom, nextPid, nRedisEvents>>

\* ----------------------------------------------------------- disconnect
\* socket.on('disconnect'): the handler only logs; socket.io takes the closed
\* socket out of every room.  The slot s then stands for the client's next
\* connection, a new socket object with no playerId or roomId, once no handler
\* of the closed socket is in flight.
Disconnect(s) ==
  /\ nCmds < MaxCmds
  /\ \A h \in InFlight : h.sock # s
  /\ nCmds' = nCmds + 1
  /\ subs' = [subs EXCEPT ![s] = {}]
  /\ sockPlayer' = [sockPlayer EXCEPT ![s] = 0]
  /\ sockRoom' = [sockRoom EXCEPT ![s] = 0]
  /\ UNCHANGED <<useRedis, store, handlers, output, issued, nextRoom, nextPid,
                 nRedisEvents>>

\* -------------------------------------------------------- specifications
\* an event from outside is delivered: an HTTP request, a socket command, a
\* Redis client event
Deliver ==
  \/ RedisConnect
  \/ RedisError
  \/ CreateRoom
  \/ \E j \in JoinInputs, r \in RoomIds : JoinRoomCall(j[1], r, j[2])
  \/ \E r \in RoomIds, p \in PlayerIds, a \in Amounts : BuyinCall(r, p, a)
  \/ \E r \in RoomIds, p \in PlayerIds, t \in ResultInputs :
       RecordResultCall(r, p, t[1], t[2])
  \/ \E r \in RoomIds, fc \in FinalChipsInputs : FinalizeRoomCall(r, fc)
  \/ \E s \in Sockets : LeaveRoom(s)
  \/ \E s \in Sockets : Disconnect(s)

\* a suspended handler is resumed
Resume ==
  \/ \E h \in InFlight : JoinRoomLoaded(h)
  \/ \E h \in InFlight : JoinRoomSaved(h)
  \/ \E h \in InFlight : BuyinLoaded(h)
  \/ \E h \in InFlight : BuyinSaved(h)
  \/ \E h \in InFlight : BuyinLogged(h)
  \/ \E h \in InFlight : RecordResultLoaded(h)
  \/ \E h \in InFlight : RecordResultLogged(h)
  \/ \E h \in InFlight : FinalizeRoomLoaded(h)
  \/ \E h \in InFlight : FinalizeRoomSaved(h)

\* handlers of different commands interleave at their awaits
Next == Deliver \/ Resume

Spec == Init /\ [][Next]_vars

\* commands issued one after another: an event is delivered only when the
\* handler before it has run to completion
NextSeq ==
  \/ Idle /\ RedisConnect
  \/ Idle /\ RedisError
  \/ Idle /\ CreateRoom
  \/ Idle /\ \E j \in JoinInputs, r \in RoomIds : JoinRoomCall(j[1], r, j[2])
  \/ Idle /\ \E r \in RoomIds, p \in PlayerIds, a \in Amounts : BuyinCall(r, p, a)
  \/ Idle /\ \E r \in RoomIds, p \in PlayerIds, t \in ResultInputs :
               RecordResultCall(r, p, t[1], t[2])
  \/ Idle /\ \E r \in RoomIds, fc \in FinalChipsInputs : FinalizeRoomCall(r, fc)
  \/ Idle /\ \E s \in Sockets : LeaveRoom(s)
  \/ Idle /\ \E s \in Sockets : Disconnect(s)
  \/ Resume

SpecSeq == Init /\ [][NextSeq]_vars

\* as NextSeq, with no recordResult command: the ledger is written by buyin
\* commands only
NextBuyinSeq ==
  \/ Idle /\ RedisConnect
  \/ Idle /\ RedisError
  \/ Idle /\ CreateRoom
  \/ Idle /\ \E j \in JoinInputs, r \in RoomIds : JoinRoomCall(j[1], r, j[2])
  \/ Idle /\ \E r \in RoomIds, p \in PlayerIds, a \in Amounts : BuyinCall(r, p, a)
  \/ Idle /\ \E r \in RoomIds, fc \in FinalChipsInputs : FinalizeRoomCall(r, fc)
  \/ Idle /\ \E s \in Sockets : LeaveRoom(s)
  \/ Idle /\ \E s \in Sockets : Disconnect(s)
  \/ \E h \in InFlight : JoinRoomLoaded(h)
  \/ \E h \in InFlight : JoinRoomSaved(h)
  \/ \E h \in InFlight : BuyinLoaded(h)
  \/ \E h \in InFlight : BuyinSaved(h)
  \/ \E h \in InFlight : BuyinLogged(h)
  \/ \E h \in InFlight : FinalizeRoomLoaded(h)
  \/ \E h \in InFlight : FinalizeRoomSaved(h)

SpecBuyinSeq == Init /\ [][NextBuyinSeq]_vars

\* ------------------------------------------------------------ observers
\* the room document the in-memory Map holds for roomId (NullDoc if none)
MemDoc(roomId) == IF rooms[roomId] = NoObj THEN NullDoc ELSE heap[rooms[roomId]]

\* the room document Redis holds for roomId (NullDoc if none)
RedisDoc(roomId) ==
  IF redisRooms[roomId] = NoKey THEN NullDoc ELSE JSONparse(redisRooms[roomId])

\* the stored room documents of both backends
Docs == [r \in RoomIds |-> <<MemDoc(r), RedisDoc(r)>>]

\* the handler h runs its next segment in this step
Steps(h) == CopiesIn(h, handlers') < CopiesIn(h, handlers)

RECURSIVE SumSeq(_)
SumSeq(q) == IF q = <<>> THEN 0 ELSE Head(q) + SumSeq(Tail(q))

\* the amounts of the entries of type 'buyin' of a transaction list, in order
RECURSIVE BuyinAmounts(_)
BuyinAmounts(log) ==
  IF log = <<>> THEN <<>>
  ELSE IF Head(log).type = "buyin"
       THEN <<Head(log).amount>> \o BuyinAmounts(Tail(log))
       ELSE BuyinAmounts(Tail(log))

\* ---------------------------------------------------------------- C1
\* C1: when buyin commands are issued one after another against a player of
\* a stored room, then between commands the player's stored buyin is the sum
\* of the amounts issued, and getTransactions returns one 'buyin' entry per
\* command, with the amounts in the order issued.
C1_SequentialBuyins ==
  Idle =>
    \A r \in RoomIds, p \in PlayerIds :
      LET k == FindPlayer(Stored(r).players, p) IN
      k # 0 =>
        /\ Stored(r).players[k].buyin = SumSeq(issued[<<r, p>>])
        /\ getTransactions(r, p) =
             [n \in 1..Len(issued[<<r, p>>]) |-> TxData("buyin", issued[<<r, p>>][n])]

\* two buyin commands with different amounts have completed for one player
C1_Witness ==
  /\ Idle
  /\ \E r \in RoomIds, p \in PlayerIds :
       /\ FindPlayer(Stored(r).players, p) # 0
       /\ issued[<<r, p>>] = <<2, 1>>
\* ---------------------------------------------------------------- C2
\* C2: in every reachable state, for every player of every stored room, the
\* amounts of the 'buyin' transactions of the (room, player) log add up to the
\* player's stored buyin.
C2_LedgerMatchesBuyin ==
  \A r \in RoomIds, p \in PlayerIds :
    LET k == FindPlayer(Stored(r).players, p) IN
    k # 0 => SumSeq(BuyinAmounts(getTransactions(r, p))) = Stored(r).players[k].buyin

\* ---------------------------------------------------------------- C3
\* C3: a finalizeRoom command that finds its room already 'ended' changes no
\* stored room document and broadcasts nothing.
C3_RepeatFinalizeRejected ==
  [][\A h \in InFlight :
       (h.kind = "finalize" /\ h.st0 = "ended" /\ Steps(h)) =>
         (Docs' = Docs /\ bcast' = bcast)]_vars

\* ---------------------------------------------------------------- C4
\* C4: once a stored room document has status 'ended', it has status 'ended'
\* in every later state.
C4_EndedIsTerminal ==
  [][\A r \in RoomIds :
       /\ MemDoc(r).status = "ended" => MemDoc(r)'.status = "ended"
       /\ RedisDoc(r).status = "ended" => RedisDoc(r)'.status = "ended"]_vars

\* ---------------------------------------------------------------- C5
\* C5: once a stored room has status 'ended', its players list (each
\* player's buyin, finalChips and profit included) never changes again.
C5_EndedRosterFrozen ==
  [][\A r \in RoomIds :
       /\ MemDoc(r).status = "ended" => MemDoc(r)'.players = MemDoc(r).players
       /\ RedisDoc(r).status = "ended" => RedisDoc(r)'.players = RedisDoc(r).players]_vars

\* ---------------------------------------------------------------- C6
\* C6: a joinRoom command whose getRoom finds no room, or a room with status
\* 'ended', returns with one error sent to its own socket only; no stored
\* room document, roster, subscription or broadcast changes, and no player
\* id is drawn.
C6_JoinRejected ==
  [][\A h \in InFlight :
       (h.kind = "join" /\ h.st0 \in {"absent", "ended"} /\ Steps(h)) =>
         /\ h.pc = "got"
         /\ handlers' = Finish(h)
         /\ Len(errors'[h.sock]) = Len(errors[h.sock]) + 1
         /\ \A s \in Sockets \ {h.sock} : errors'[s] = errors[s]
         /\ Docs' = Docs
         /\ UNCHANGED <<rooms, redisRooms, transactions, redisTx, sockets, bcast,
                        nextPid>>]_vars

\* both rejections have happened: one join found no room, one found it ended
C6_Witness ==
  /\ \E s \in Sockets : \E n \in 1..Len(errors[s]) : errors[s][n] = "room-missing"
  /\ \E s \in Sockets : \E n \in 1..Len(errors[s]) : errors[s][n] = "room-ended"

\* ---------------------------------------------------------------- C7
\* C7: a buyin or recordResult command with a negative amount changes no
\* stored room document, appends no transaction and broadcasts nothing.
C7_NegativeAmountRejected ==
  [][\A h \in InFlight :
       (h.kind \in {"buyin", "record"} /\ h.amount < 0 /\ Steps(h)) =>
         (Docs' = Docs /\ UNCHANGED <<transactions, redisTx, bcast>>)]_vars
\* ---------------------------------------------------------------- C8
\* all buyin entries the two backends hold for a (room, player) pair
Ledger(r, p) ==
  BuyinAmounts(transactions[<<r, p>>]) \o BuyinAmounts(redisTx[<<r, p>>])

\* two buyin commands with positive amounts ran to their broadcast for player
\* p of room r, and the buyin Redis stores for p is less than their sum
LostUpdate(r, p) ==
  LET k == FindPlayer(RedisDoc(r).players, p) IN
  /\ Idle
  /\ Len(issued[<<r, p>>]) = 2
  /\ issued[<<r, p>>][1] > 0 /\ issued[<<r, p>>][2] > 0
  /\ k # 0
  /\ RedisDoc(r).players[k].buyin < issued[<<r, p>>][1] + issued[<<r, p>>][2]

\* C8: where two completed buyin commands with positive amounts left the
\* stored buyin short of their sum (one increment lost), the ledger holds a
\* buy-in transaction for each of the two; the witness shows such a state is
\* reached by interleaving the two commands.
C8_LostUpdateKeepsLedger ==
  \A r \in RoomIds, p \in PlayerIds :
    LostUpdate(r, p) =>
      \E m, n \in 1..Len(Ledger(r, p)) :
        /\ m # n
        /\ Ledger(r, p)[m] = issued[<<r, p>>][1]
        /\ Ledger(r, p)[n] = issued[<<r, p>>][2]

\* the room lived in Redis only (connected before any command, never
\* disconnected), both buy-ins are in its ledger, one increment is lost
C8_Witness ==
  /\ useRedis /\ nRedisEvents = 1
  /\ \A r \in RoomIds : rooms[r] = NoObj
  /\ \E r \in RoomIds, p \in PlayerIds :
       /\ LostUpdate(r, p)
       /\ Len(BuyinAmounts(redisTx[<<r, p>>])) = 2
       /\ RedisDoc(r).players[FindPlayer(RedisDoc(r).players, p)].buyin
            \in {issued[<<r, p>>][1], issued[<<r, p>>][2]}

\* ---------------------------------------------------------------- C9
\* the fields of a player the roomEnded summary repeats
SummaryFields(pl) ==
  [nickname |-> pl.nickname, buyin |-> pl.buyin, finalChips |-> pl.finalChips,
   profit |-> pl.profit]

Named(fcs) == {fcs[n].playerId : n \in 1..Len(fcs)}

\* C10: after a finalizeRoom that found its room, every roster player not
\* named in finalChips has a null finalChips in the stored document and in
\* the roomEnded summary; and a finalizeRoom with empty finalChips on a
\* 'waiting' room with an empty roster stores status 'ended' and broadcasts
\* an empty summary.
C10_OmittedStayNull ==
  [][\A h \in InFlight :
       (h.kind = "finalize" /\ Steps(h)) =>
         /\ (h.pc = "got" /\ h.obj # NoObj) =>
              LET d == Stored(h.room)' IN
              /\ \A k \in 1..Len(d.players) :
                   d.players[k].id \notin Named(h.fc) => d.players[k].finalChips = <<>>
              /\ (h.st0 = "waiting" /\ h.fc = <<>> /\ heap[h.obj].players = <<>>) =>
                   d.status = "ended"
         /\ h.pc = "saved" =>
              /\ \A k \in 1..Len(h.wrote.players) :
                   h.wrote.players[k].id \notin Named(h.fc) =>
                     bcast'.summary[k].finalChips = <<>>
              /\ (h.st0 = "waiting" /\ h.fc = <<>> /\ h.wrote.players = <<>>) =>
                   (bcast'.name = "roomEnded" /\ bcast'.summary = <<>>)]_vars
\* ---------------------------------------------------------------- C11
\* the handler h has its getRoom result and finds no room, or (buyin and
\* recordResult) no player with its playerId in the room's roster
NotFound(h) ==
  /\ h.kind \in {"buyin", "record", "finalize"}
  /\ h.pc = "got"
  /\ \/ h.obj = NoObj
     \/ /\ h.kind # "finalize"
        /\ FindPlayer(heap[h.obj].players, h.pid) = 0

\* C11: when a buyin, recordResult or finalizeRoom handler finds that its
\* room is not stored, or a buyin or recordResult handler finds no player with
\* its player id in the roster, the step in which it returns sends an error
\* to a socket.
C11_NotFoundReported ==
  [][\A h \in InFlight :
       (NotFound(h) /\ Steps(h)) =>
         \E s \in Sockets : Len(errors'[s]) > Len(errors[s])]_vars

\* ---------------------------------------------------------------- C12
\* the roster of the document doc has a player with id p
InRoster(doc, p) == FindPlayer(doc.players, p) # 0

\* C12: a player whose joinRoom has completed (the handler has set
\* socket.playerId and socket.roomId and broadcast playerJoined) is in the
\* roster of a stored document of that room, in every reachable state.
C12_PlayerNeverRemoved ==
  \A s \in Sockets :
    sockPlayer[s] # 0 =>
      \/ InRoster(MemDoc(sockRoom[s]), sockPlayer[s])
      \/ InRoster(RedisDoc(sockRoom[s]), sockPlayer[s])

\* ---------------------------------------------------------------- C13
\* the buyin the document doc records for the player with id p
BuyinOf(doc, p) == doc.players[FindPlayer(doc.players, p)].buyin

\* from document d to document e the buyin of player p does not decrease, and
\* it is 0 if p is new in e
BuyinGrows(d, e, p) ==
  InRoster(e, p) =>
    IF InRoster(d, p) THEN BuyinOf(e, p) >= BuyinOf(d, p) ELSE BuyinOf(e, p) = 0

\* C13: in every step, for every player of a stored room document, the
\* buyin after the step is at least the buyin before it, and a player who
\* enters the roster in the step has buyin 0.
C13_BuyinMonotone ==
  [][\A r \in RoomIds, p \in PlayerIds :
       /\ BuyinGrows(MemDoc(r), MemDoc(r)', p)
       /\ BuyinGrows(RedisDoc(r), RedisDoc(r)', p)]_vars

\* ---------------------------------------------------------------- C14
\* C14: a room is created with status 'waiting'; no step of a joinRoom
\* handler changes the stored status; and when a buyin or recordResult
\* handler that found its room 'waiting' and found its player goes on from
\* getRoom, the stored status of the room is 'playing' after that step.
C14_StatusFollowsCommands ==
  [][/\ \A r \in RoomIds :
          (nextRoom # r /\ nextRoom' = r) => Stored(r)'.status = "waiting"
     /\ \A h \in InFlight :
          Steps(h) =>
            /\ h.kind = "join" => Stored(h.room)'.status = Stored(h.room).status
            /\ ( /\ h.kind \in {"buyin", "record"}
                 /\ h.pc = "got" /\ ~NotFound(h)
                 /\ h.st0 = "waiting" ) =>
                 Stored(h.room)'.status = "playing"]_vars

\* ---------------------------------------------------------------- C15
\* the list a is the beginning of the list b
IsPrefix(a, b) == Len(a) <= Len(b) /\ SubSeq(b, 1, Len(a)) = a

\* the next segment of handler h calls saveTransaction
Appends(h) ==
  \/ h.kind = "buyin" /\ h.pc = "saved"
  \/ h.kind = "record" /\ h.pc = "got" /\ ~NotFound(h)

\* the entry that call appends
Appended(h) == TxData(IF h.kind = "buyin" THEN "buyin" ELSE h.type, h.amount)

\* C15: in every step the list each backend keeps for a (room, player) pair
\* begins with the list it kept before the step; the step of a buyin or
\* recordResult handler that calls saveTransaction makes getTransactions of
\* its pair return what it returned before followed by that one entry, and
\* leaves getTransactions of every other pair as it was; every other handler
\* step leaves getTransactions of every pair as it was.
C15_LogAppendOnly ==
  [][/\ \A k \in Keys :
          /\ IsPrefix(transactions[k], transactions'[k])
          /\ IsPrefix(redisTx[k], redisTx'[k])
     /\ \A h \in InFlight :
          Steps(h) =>
            \A k \in Keys :
              getTransactions(k[1], k[2])' =
                IF Appends(h) /\ k = <<h.room, h.pid>>
                THEN Append(getTransactions(k[1], k[2]), Appended(h))
                ELSE getTransactions(k[1], k[2])]_vars

\* getTransactions returns a buy-in followed by a win for one pair
C15_Witness ==
  \E k \in Keys :
    /\ Len(getTransactions(k[1], k[2])) = 2
    /\ getTransactions(k[1], k[2])[1] = TxData("buyin", 2)
    /\ getTransactions(k[1], k[2])[2] = TxData("win", 1)

\* ---------------------------------------------------------------- C16
\* the next segment of handler h is the one that broadcasts its event
Broadcasts(h) ==
  \/ h.kind \in {"join", "finalize"} /\ h.pc = "saved"
  \/ h.kind = "buyin" /\ h.pc = "logged"

\* C16: when a joinRoom, buyin or finalizeRoom handler broadcasts its event
\* to the subscribers of its room, no other handler on that room whose
\* saveRoom call came before this handler's is still waiting to broadcast:
\* events reach the subscribers in the order of the room-document writes.
C16_BroadcastsFollowWrites ==
  [][\A h \in InFlight :
       (Broadcasts(h) /\ Steps(h) /\ bcast'.to # {}) =>
         \A g \in InFlight :
           (g.room = h.room /\ g.ord > 0) => g.ord >= h.ord]_vars

\* ---------------------------------------------------------------- C17
\* the handler h is received in this step (it has just called getRoom)
Received(h) == h.pc = "got" /\ CopiesIn(h, handlers') > CopiesIn(h, handlers)

\* C17: a handler that is received when POST /api/rooms has already answered
\* with its room id gets the room from getRoom; so a joinRoom that starts
\* after the create response is not turned away for a missing room.
C17_CreatePersists ==
  [][\A h \in BagToSet(handlers') :
       (Received(h) /\ h.room <= nextRoom) => h.obj # NoObj]_vars

\* ---------------------------------------------------------------- C18
\* C18: once getRoom would return a document for a room id, it returns a
\* document for it after every later step, the 'connect' and 'error' events
\* of the Redis client included.
C18_RoomNeverLost ==
  [][\A r \in RoomIds :
       Stored(r) # NullDoc => Stored(r)' # NullDoc]_vars

\* ---------------------------------------------------------------- C19
\* C19: no step of a recordResult handler changes a stored room document
\* (status, roster, any player's buyin, finalChips or profit), the rooms Map,
\* a Redis room key or a socket; the step that calls saveTransaction adds one
\* entry, with the type and amount of the command, at the end of the list of
\* its (room, player) pair and changes no other list; its other steps change
\* no list.
C19_RecordResultFrame ==
  [][\A h \in InFlight :
       (h.kind = "record" /\ Steps(h)) =>
         /\ Docs' = Docs
         /\ UNCHANGED <<rooms, redisRooms, useRedis, sockets, errors>>
         /\ IF Appends(h)
            THEN /\ getTransactions(h.room, h.pid)' =
                      Append(getTransactions(h.room, h.pid), TxData(h.type, h.amount))
                 /\ Len(transactions'[<<h.room, h.pid>>]) + Len(redisTx'[<<h.room, h.pid>>])
                      = Len(transactions[<<h.room, h.pid>>])
                          + Len(redisTx[<<h.room, h.pid>>]) + 1
                 /\ \A k \in Keys \ {<<h.room, h.pid>>} :
                      transactions'[k] = transactions[k] /\ redisTx'[k] = redisTx[k]
            ELSE UNCHANGED <<transactions, redisTx>>]_vars

\* a recordResult of type 'buyin' and amount 2 has been logged and broadcast,
\* and the stored buyin of its player is still 0
C19_Witness ==
  /\ bcast.name = "recordResult" /\ bcast.type = "buyin"
  /\ InRoster(Stored(bcast.room), bcast.playerId)
  /\ BuyinOf(Stored(bcast.room), bcast.playerId) = 0
  /\ getTransactions(bcast.room, bcast.playerId) = <<TxData("buyin", 2)>>

\* ---------------------------------------------------------------- C20
\* a buyin handler for player p of room r is between its increment of
\* player.buyin and its broadcast
BuyinUnderWay(r, p) ==
  \E h \in InFlight :
    h.kind = "buyin" /\ h.room = r /\ h.pid = p /\ h.pc \in {"saved", "logged"}

\* C20: while useRedis has been false in every state so far, whenever no
\* buyin command for a player is between its increment and its broadcast,
\* the buyin the in-memory room holds for that player is the sum of the
\* amounts of all buyin commands completed for it (its value at joining is
\* 0), however the handlers were interleaved.
C20_InMemoryAdditive ==
  nRedisEvents = 0 =>
    \A r \in RoomIds, p \in PlayerIds :
      (InRoster(MemDoc(r), p) /\ ~BuyinUnderWay(r, p)) =>
        BuyinOf(MemDoc(r), p) = SumSeq(issued[<<r, p>>])

\* two buyin commands for one player overlapped on the in-memory backend:
\* the one that logged its transaction first broadcast last; the stored
\* buyin is 3 = 2 + 1
C20_Witness ==
  /\ nRedisEvents = 0 /\ Idle
  /\ \E r \in RoomIds, p \in PlayerIds :
       /\ InRoster(MemDoc(r), p)
       /\ BuyinAmounts(transactions[<<r, p>>]) = <<2, 1>>
       /\ issued[<<r, p>>] = <<1, 2>>
       /\ BuyinOf(MemDoc(r), p) = 3
====
